---- MODULE Spec2Model ----
(***************************************************************************)
(* Transport layer of the WireGuard outbound: the dialer-relayed Bind      *)
(* (WgBind), the direct-socket Bind (StdNetBind), the endpoint interning   *)
(* cache (asEndpoint), the reserved-byte framing and the device bring-up   *)
(* (WireGuard.up / init / Cleanup).  Each component has its own            *)
(* specification over its own variables; the variables of the other        *)
(* components stay at their initial value.                                 *)
(***************************************************************************)
EXTENDS Integers, Sequences, FiniteSets, TLC

(***************************************************************************)
(* Bounds of the model.                                                    *)
(***************************************************************************)
NumProcs == 2      \* goroutines calling into the relayed Bind
MaxOps == 4        \* Bind operations started in one behaviour
MaxConns == 2      \* successful dials in one behaviour
MaxBufs == 2       \* buffers handed to one Send / receive call
NumCallers == 2    \* goroutines calling into the outbound
MaxCalls == 3      \* DialContext / ListenPacketContext / Cleanup calls started
MaxStdOps == 4     \* Open / Close calls on the direct-socket Bind
MaxPort == 2       \* UDP ports 1..MaxPort exist
MaxLen == 5        \* length of a datagram, and of a receive buffer
MaxByte == 1       \* byte values 0..MaxByte
NumInterners == 2  \* goroutines calling asEndpoint
NumAddrs == 2      \* distinct netip.AddrPort values
MaxMaps == 2       \* maps endpointPool.New makes
MaxInterns == 3    \* calls of asEndpoint begun
MaxDns == 3        \* entries of the dns option

Procs == 1..NumProcs

VARIABLES
    wbDone,        \* WgBind.done: "nil" | "open" | "closed"
    wbConn,        \* WgBind.conn: 0 (nil) or the index of a handle in conns
    connMux,       \* WgBind.connMux: 0 (free) or the goroutine holding it
    conns,         \* every wgConn handle dialed so far
    pc,            \* position of each goroutine inside its current call
    loc,           \* locals of each goroutine's current call
    last,          \* the call that returned last, with what it returned
    closeRets,     \* return values of the Close calls, in order
    opsStarted     \* number of Bind calls started

wbVars == <<wbDone, wbConn, connMux, conns, pc, loc, last, closeRets, opsStarted>>

VARIABLES
    option,        \* the WireGuardOption given to NewWireGuard
    w,             \* the fields of the WireGuard outbound
    upOnce,        \* WireGuard.upOnce: "new" | "running" | "done"
    downOnce,      \* WireGuard.downOnce: "new" | "running" | "done"
    ini,           \* the locals of the running init
    upc,           \* position of each caller inside its current call
    ucall,         \* the call each caller is in, or returned from last
    seen,          \* the outcome each caller's last call returned
    env,           \* the collaborators: resolver answers, objects built, config applied
    callsStarted   \* number of outbound calls started

upVars == <<option, w, upOnce, downOnce, ini, upc, ucall, seen, env, callsStarted>>

VARIABLES
    s,             \* StdNetBind: ipv4, ipv6 (0: nil, else the port the socket
                   \* is bound to), blackhole4, blackhole6
    bound,         \* the UDP sockets this process holds open: <<family, port>>
    sop,           \* the locals of the running Open, and its position
    slast,         \* the Open / Close call that returned last
    sHist          \* the calls so far: how many began (calls), the one that
                   \* returned last (prev), whether an Open found the Bind
                   \* open (already)

stdVars == <<s, bound, sop, slast, sHist>>

VARIABLES
    fr             \* one datagram on its way through a loopback pair of Binds

frVars == <<fr>>

VARIABLES
    ep,            \* endpointPool: the maps made, the pooled ones, history
    ic             \* ic[t]: the call of asEndpoint goroutine t is in

epVars == <<ep, ic>>

VARIABLES
    dns            \* NewWireGuard building the DNS server list, and init
                   \* handing it to the network stack

dnsVars == <<dns>>

vars == <<wbVars, upVars, stdVars, frVars, epVars, dnsVars>>

\* What a step of one component leaves alone: the other components.
WbFrame == UNCHANGED <<upVars, stdVars, frVars, epVars, dnsVars>>
UpFrame == UNCHANGED <<wbVars, stdVars, frVars, epVars, dnsVars>>
StdFrame == UNCHANGED <<wbVars, upVars, frVars, epVars, dnsVars>>
FrFrame == UNCHANGED <<wbVars, upVars, stdVars, epVars, dnsVars>>
EpFrame == UNCHANGED <<wbVars, upVars, stdVars, frVars, dnsVars>>
DnsFrame == UNCHANGED <<wbVars, upVars, stdVars, frVars, epVars>>

(***************************************************************************)
(* Relayed Bind (WgBind).                                                  *)
(***************************************************************************)

\* Outcomes of dialer.DialContext: a connection, ENETUNREACH, another error.
DialOutcomes == {"ok", "unreach", "refused"}

\* &wgConn{Conn: udpConn, done: make(chan struct{})}
\*   done   : the one-shot closed signal has fired
\*   closes : times Close was invoked on the underlying stream
\*   broken : the stream fails every Read / Write (peer or network failure)
\*   late   : calls of wgConn.Close that found done fired and returned
\*            net.ErrClosed
NewWgConn == [done |-> FALSE, closes |-> 0, broken |-> FALSE, late |-> 0]

\* Locals of a goroutine that is not inside a call:
\*   op    : the call ("Send", "receive", "Close")
\*   c     : udpConn, the handle connect returned
\*   nb, i : number of buffers of the call, buffers written / read so far
\*   err   : the error connect returned
\*   dials : dials the call performed
\*   stale : wb.conn was a closed handle when the call began
\*   rechk : connect's second check, under connMux, found a live handle
IdleLoc ==
    [op |-> "none", c |-> 0, nb |-> 0, i |-> 0, err |-> "nil", dials |-> 0,
     stale |-> FALSE, rechk |-> FALSE]

\* What a returned call leaves behind: its locals (cerr: the error connect
\* returned), the error it returned (ret), the count it returned (n), the
\* receive functions it registered (fns), whether it paused (slept) and
\* whether it zeroed sizes[n] (size0).
Returned(l, ret, n) ==
    [op |-> l.op, c |-> l.c, nb |-> l.nb, i |-> l.i, dials |-> l.dials,
     stale |-> l.stale, cerr |-> l.err, ret |-> ret, n |-> n, fns |-> 0,
     slept |-> FALSE, size0 |-> FALSE]

NoCall == Returned(IdleLoc, "none", 0)

\* NewWgBind leaves conn and done nil.
WbInit ==
    /\ wbDone = "nil"
    /\ wbConn = 0
    /\ connMux = 0
    /\ conns = <<>>
    /\ pc = [p \in Procs |-> "idle"]
    /\ loc = [p \in Procs |-> IdleLoc]
    /\ last = NoCall
    /\ closeRets = <<>>
    /\ opsStarted = 0

\* Number of Close calls that have returned nil.
CloseOks == Cardinality({k \in 1..Len(closeRets) : closeRets[k] = "nil"})

\* select { case <-serverConn.done: serverConn = nil; default: return serverConn }
ConnLiveNoSignal(c) == c # 0
ConnLiveNever(c) == FALSE
ConnLive(c) == c # 0 /\ ~conns[c].done

\* The stream behind handle c accepts a Read / Write.
StreamOk(c) == ~conns[c].broken /\ conns[c].closes = 0

\* wgConn.Close on handle c of cs: the handles afterwards.
WgConnCloseTwice(cs, c) ==
    [cs EXCEPT ![c].done = TRUE, ![c].closes = @ + 1]
WgConnClose(cs, c) ==
    IF cs[c].done THEN [cs EXCEPT ![c].late = @ + 1]
    ELSE [cs EXCEPT ![c].done = TRUE, ![c].closes = @ + 1]

\* A call may begin.
CanBegin(p) == pc[p] = "idle" /\ opsStarted < MaxOps

\* WgBind.Open: the error and the number of receive functions registered.
OpenResultIgnoreDone(d) == [ret |-> "nil", fns |-> 1]
OpenResult(d) ==
    IF d = "closed" THEN [ret |-> "ErrClosed", fns |-> 0]
    ELSE [ret |-> "nil", fns |-> 1]

WbOpen(p) ==
    /\ CanBegin(p)
    /\ opsStarted' = opsStarted + 1
    /\ last' = [Returned([IdleLoc EXCEPT !.op = "Open"], OpenResult(wbDone).ret, 0)
                  EXCEPT !.fns = OpenResult(wbDone).fns]
    /\ UNCHANGED <<wbDone, wbConn, connMux, conns, pc, loc, closeRets>>
    /\ WbFrame

\* Where a call continues once connect has returned a handle.
AfterConnect(op) == IF op = "Send" THEN "write" ELSE "read"

\* Send and receive begin with connect(), whose first check holds no lock.
ConnectFast(p, op, nb) ==
    /\ CanBegin(p)
    /\ opsStarted' = opsStarted + 1
    /\ loc' = [loc EXCEPT ![p] =
                 [IdleLoc EXCEPT !.op = op, !.nb = nb,
                                 !.c = IF ConnLive(wbConn) THEN wbConn ELSE 0,
                                 !.stale = (wbConn # 0 /\ conns[wbConn].done)]]
    /\ pc' = [pc EXCEPT ![p] = IF ConnLive(wbConn) THEN AfterConnect(op)
                               ELSE "connLock"]
    /\ UNCHANGED <<wbDone, wbConn, connMux, conns, last, closeRets>>
    /\ WbFrame

SendBegin(p) == \E nb \in 1..MaxBufs : ConnectFast(p, "Send", nb)

ReceiveBegin(p) == \E nb \in 1..MaxBufs : ConnectFast(p, "receive", nb)

\* connect, under connMux: second check, then the dial and the swap of
\* wb.conn; the deferred Unlock runs on return.  A dial error is returned
\* wrapped in *wgError; Send returns it as it is.
ConnectSlowNoRecheck(p) ==
    /\ pc[p] = "connLock"
    /\ connMux = 0
    /\ \E r \in DialOutcomes :
            IF r = "ok"
            THEN /\ Len(conns) < MaxConns
                 /\ conns' = Append(conns, NewWgConn)
                 /\ wbConn' = Len(conns) + 1
                 /\ loc' = [loc EXCEPT ![p].c = Len(conns) + 1,
                                       ![p].dials = @ + 1]
                 /\ pc' = [pc EXCEPT ![p] = AfterConnect(loc[p].op)]
                 /\ UNCHANGED last
            ELSE /\ UNCHANGED <<wbConn, conns>>
                 /\ IF loc[p].op = "Send"
                    THEN /\ last' = Returned([loc[p] EXCEPT !.err = r,
                                                            !.dials = @ + 1],
                                              r, 0)
                         /\ loc' = [loc EXCEPT ![p] = IdleLoc]
                         /\ pc' = [pc EXCEPT ![p] = "idle"]
                    ELSE /\ loc' = [loc EXCEPT ![p].err = r, ![p].dials = @ + 1]
                         /\ pc' = [pc EXCEPT ![p] = "recvConnErr"]
                         /\ UNCHANGED last
    /\ UNCHANGED <<wbDone, connMux, closeRets, opsStarted>>
    /\ WbFrame
ConnectSlow(p) ==
    /\ pc[p] = "connLock"
    /\ connMux = 0
    /\ IF ConnLive(wbConn)
       THEN /\ loc' = [loc EXCEPT ![p].c = wbConn, ![p].rechk = TRUE]
            /\ pc' = [pc EXCEPT ![p] = AfterConnect(loc[p].op)]
            /\ UNCHANGED <<wbConn, conns, last>>
       ELSE \E r \in DialOutcomes :
            IF r = "ok"
            THEN /\ Len(conns) < MaxConns
                 /\ conns' = Append(conns, NewWgConn)
                 /\ wbConn' = Len(conns) + 1
                 /\ loc' = [loc EXCEPT ![p].c = Len(conns) + 1,
                                       ![p].dials = @ + 1]
                 /\ pc' = [pc EXCEPT ![p] = AfterConnect(loc[p].op)]
                 /\ UNCHANGED last
            ELSE /\ UNCHANGED <<wbConn, conns>>
                 /\ IF loc[p].op = "Send"
                    THEN /\ last' = Returned([loc[p] EXCEPT !.err = r,
                                                            !.dials = @ + 1],
                                              r, 0)
                         /\ loc' = [loc EXCEPT ![p] = IdleLoc]
                         /\ pc' = [pc EXCEPT ![p] = "idle"]
                    ELSE /\ loc' = [loc EXCEPT ![p].err = r, ![p].dials = @ + 1]
                         /\ pc' = [pc EXCEPT ![p] = "recvConnErr"]
                         /\ UNCHANGED last
    /\ UNCHANGED <<wbDone, connMux, closeRets, opsStarted>>
    /\ WbFrame

\* Send, one buffer: setReserved and Write; a failed Write closes the
\* handle and returns the error; after the last buffer Send returns nil.
SendWriteKeepsConn(p) ==
    /\ pc[p] = "write"
    /\ LET c == loc[p].c IN
       IF StreamOk(c)
       THEN /\ UNCHANGED conns
            /\ IF loc[p].i + 1 = loc[p].nb
               THEN /\ last' = Returned([loc[p] EXCEPT !.i = @ + 1], "nil", 0)
                    /\ loc' = [loc EXCEPT ![p] = IdleLoc]
                    /\ pc' = [pc EXCEPT ![p] = "idle"]
               ELSE /\ loc' = [loc EXCEPT ![p].i = @ + 1]
                    /\ UNCHANGED <<pc, last>>
       ELSE /\ UNCHANGED conns
            /\ last' = Returned(loc[p], "writeErr", 0)
            /\ loc' = [loc EXCEPT ![p] = IdleLoc]
            /\ pc' = [pc EXCEPT ![p] = "idle"]
    /\ UNCHANGED <<wbDone, wbConn, connMux, closeRets, opsStarted>>
    /\ WbFrame
SendWrite(p) ==
    /\ pc[p] = "write"
    /\ LET c == loc[p].c IN
       IF StreamOk(c)
       THEN /\ UNCHANGED conns
            /\ IF loc[p].i + 1 = loc[p].nb
               THEN /\ last' = Returned([loc[p] EXCEPT !.i = @ + 1], "nil", 0)
                    /\ loc' = [loc EXCEPT ![p] = IdleLoc]
                    /\ pc' = [pc EXCEPT ![p] = "idle"]
               ELSE /\ loc' = [loc EXCEPT ![p].i = @ + 1]
                    /\ UNCHANGED <<pc, last>>
       ELSE /\ conns' = WgConnClose(conns, c)
            /\ last' = Returned(loc[p], "writeErr", 0)
            /\ loc' = [loc EXCEPT ![p] = IdleLoc]
            /\ pc' = [pc EXCEPT ![p] = "idle"]
    /\ UNCHANGED <<wbDone, wbConn, connMux, closeRets, opsStarted>>
    /\ WbFrame

\* receive, connect failed: err is overwritten with ErrClosed or nil, and
\* only then tested for being a *wgError wrapping ENETUNREACH.
RecvErrAfterConnectKeeps(d) == IF d = "closed" THEN "ErrClosed" ELSE "dialErr"
RecvErrAfterConnect(d) == IF d = "closed" THEN "ErrClosed" ELSE "nil"

ReceiveConnErr(p) ==
    /\ pc[p] = "recvConnErr"
    /\ LET err == RecvErrAfterConnect(wbDone) IN
       last' = [Returned(loc[p], err, 0) EXCEPT !.slept = (err = "unreach")]
    /\ loc' = [loc EXCEPT ![p] = IdleLoc]
    /\ pc' = [pc EXCEPT ![p] = "idle"]
    /\ UNCHANGED <<wbDone, wbConn, connMux, conns, closeRets, opsStarted>>
    /\ WbFrame

\* receive, one packet: Read; a failed Read closes the handle and returns
\* n = i with ErrClosed (Bind closed) or with sizes[i] = 0 and a nil error.
ReceiveRead(p) ==
    /\ pc[p] = "read"
    /\ LET c == loc[p].c IN
       IF StreamOk(c)
       THEN /\ UNCHANGED conns
            /\ IF loc[p].i + 1 = loc[p].nb
               THEN /\ last' = Returned([loc[p] EXCEPT !.i = @ + 1], "nil", loc[p].nb)
                    /\ loc' = [loc EXCEPT ![p] = IdleLoc]
                    /\ pc' = [pc EXCEPT ![p] = "idle"]
               ELSE /\ loc' = [loc EXCEPT ![p].i = @ + 1]
                    /\ UNCHANGED <<pc, last>>
       ELSE /\ conns' = WgConnClose(conns, c)
            /\ last' = [Returned(loc[p],
                                 IF wbDone = "closed" THEN "ErrClosed" ELSE "nil",
                                 loc[p].i)
                          EXCEPT !.size0 = (wbDone # "closed")]
            /\ loc' = [loc EXCEPT ![p] = IdleLoc]
            /\ pc' = [pc EXCEPT ![p] = "idle"]
    /\ UNCHANGED <<wbDone, wbConn, connMux, closeRets, opsStarted>>
    /\ WbFrame

\* Reset: under connMux, close the current handle if there is one.
ResetClosesBind(p) ==
    /\ CanBegin(p)
    /\ connMux = 0
    /\ opsStarted' = opsStarted + 1
    /\ conns' = IF wbConn # 0 THEN WgConnClose(conns, wbConn) ELSE conns
    /\ wbDone' = "closed"
    /\ last' = Returned([IdleLoc EXCEPT !.op = "Reset", !.c = wbConn], "nil", 0)
    /\ UNCHANGED <<wbConn, connMux, pc, loc, closeRets>>
    /\ WbFrame
Reset(p) ==
    /\ CanBegin(p)
    /\ connMux = 0
    /\ opsStarted' = opsStarted + 1
    /\ conns' = IF wbConn # 0 THEN WgConnClose(conns, wbConn) ELSE conns
    /\ last' = Returned([IdleLoc EXCEPT !.op = "Reset", !.c = wbConn], "nil", 0)
    /\ UNCHANGED <<wbDone, wbConn, connMux, pc, loc, closeRets>>
    /\ WbFrame

\* Close, first half: take connMux and close the current handle if any.
CloseConn(p) ==
    /\ CanBegin(p)
    /\ connMux = 0
    /\ connMux' = p
    /\ opsStarted' = opsStarted + 1
    /\ conns' = IF wbConn # 0 THEN WgConnClose(conns, wbConn) ELSE conns
    /\ loc' = [loc EXCEPT ![p] = [IdleLoc EXCEPT !.op = "Close", !.c = wbConn]]
    /\ pc' = [pc EXCEPT ![p] = "closeDone"]
    /\ UNCHANGED <<wbDone, wbConn, last, closeRets>>
    /\ WbFrame

\* Close, second half: a nil done is created (open) and Close returns nil;
\* a fired done makes Close return ErrClosed; otherwise done is fired.
CloseDoneResultFireNil(d) ==
    CASE d = "nil" -> [done |-> "closed", ret |-> "nil"]
      [] d = "closed" -> [done |-> "closed", ret |-> "ErrClosed"]
      [] OTHER -> [done |-> "closed", ret |-> "nil"]
CloseDoneResult(d) ==
    CASE d = "nil" -> [done |-> "open", ret |-> "nil"]
      [] d = "closed" -> [done |-> "closed", ret |-> "ErrClosed"]
      [] OTHER -> [done |-> "closed", ret |-> "nil"]

CloseDone(p) ==
    /\ pc[p] = "closeDone"
    /\ connMux = p
    /\ connMux' = 0
    /\ wbDone' = CloseDoneResult(wbDone).done
    /\ closeRets' = Append(closeRets, CloseDoneResult(wbDone).ret)
    /\ last' = Returned(loc[p], CloseDoneResult(wbDone).ret, 0)
    /\ loc' = [loc EXCEPT ![p] = IdleLoc]
    /\ pc' = [pc EXCEPT ![p] = "idle"]
    /\ UNCHANGED <<wbConn, conns, opsStarted>>
    /\ WbFrame

\* The peer or the network fails the stream behind an open handle.
Break(c) ==
    /\ StreamOk(c)
    /\ conns' = [conns EXCEPT ![c].broken = TRUE]
    /\ UNCHANGED <<wbDone, wbConn, connMux, pc, loc, last, closeRets, opsStarted>>
    /\ WbFrame

\* One step of goroutine p inside the relayed Bind.
WbStep(p) ==
    \/ WbOpen(p)
    \/ SendBegin(p)
    \/ ReceiveBegin(p)
    \/ ConnectSlow(p)
    \/ SendWrite(p)
    \/ ReceiveConnErr(p)
    \/ ReceiveRead(p)
    \/ Reset(p)
    \/ CloseConn(p)
    \/ CloseDone(p)

WbNext ==
    \/ \E p \in Procs : WbStep(p)
    \/ \E c \in 1..Len(conns) : Break(c)

\* WgBind.BatchSize: the engine hands Send and receive one buffer a call.
BatchSize == 1

\* Send and receive as the engine's goroutines call them.
EngineSend(p) == ConnectFast(p, "Send", BatchSize)

EngineReceive(p) == ConnectFast(p, "receive", BatchSize)

\* The callers of connect: the engine's goroutines in Send and in receive,
\* any of which may call Reset or Close, while streams fail.
WbConnNext ==
    \/ \E p \in Procs :
         \/ EngineSend(p)
         \/ EngineReceive(p)
         \/ ConnectSlow(p)
         \/ SendWrite(p)
         \/ ReceiveConnErr(p)
         \/ ReceiveRead(p)
         \/ Reset(p)
         \/ CloseConn(p)
         \/ CloseDone(p)
    \/ \E c \in 1..Len(conns) : Break(c)

\* The same Bind driven by a single goroutine: calls follow one another.
WbSeqNext ==
    \/ WbStep(1)
    \/ \E c \in 1..Len(conns) : Break(c)


(***************************************************************************)
(* Device bring-up (NewWireGuard, up, init, DialContext,                   *)
(* ListenPacketContext, Cleanup).                                          *)
(***************************************************************************)

Callers == 1..NumCallers

\* if tryTimes < 5
RetryLimit == 5

\* The options that matter to the configuration lines: a preshared key or
\* none, a local IPv4 address or none, a local IPv6 address or none.
Options == [psk : BOOLEAN, ip : BOOLEAN, ipv6 : BOOLEAN]

Line(k, v) == [key |-> k, val |-> v]

\* NewWireGuard: the configuration lines it builds, in the order of its
\* appends (keys, then the allowed_ip lines).
NewUapiConfV6First(o) ==
    <<Line("private_key", "hex(private-key)"),
      Line("public_key", "hex(public-key)")>>
    \o (IF o.psk THEN <<Line("preshared_key", "hex(preshared-key)")>> ELSE <<>>)
    \o (IF o.ipv6 THEN <<Line("allowed_ip", "::/0")>> ELSE <<>>)
    \o (IF o.ip THEN <<Line("allowed_ip", "0.0.0.0/0")>> ELSE <<>>)
NewUapiConf(o) ==
    <<Line("private_key", "hex(private-key)"),
      Line("public_key", "hex(public-key)")>>
    \o (IF o.psk THEN <<Line("preshared_key", "hex(preshared-key)")>> ELSE <<>>)
    \o (IF o.ip THEN <<Line("allowed_ip", "0.0.0.0/0")>> ELSE <<>>)
    \o (IF o.ipv6 THEN <<Line("allowed_ip", "::/0")>> ELSE <<>>)

\* NewWireGuard fails when neither local address is configured.
NewWireGuardErr(o) ==
    IF ~o.ip /\ ~o.ipv6 THEN "wireguard missing local ip" ELSE "nil"

\* The outbound NewWireGuard returns.
NewWireGuard(o) ==
    [built |-> NewWireGuardErr(o) = "nil",
     uapiConf |-> NewUapiConf(o),
     upErr |-> "nil",
     wgDevice |-> 0, tunDevice |-> 0, netStack |-> 0, bind |-> 0]

NoInit == [tryTimes |-> 0, endpointIP |-> 0, wgBind |-> 0, tunDevice |-> 0,
           wgDevice |-> 0]

\* Nothing resolved, built, applied or closed yet:
\*   resLog   : the resolver's answers so far (TRUE: an address)
\*   binds, tuns, devices : objects constructed
\*   devCloses : calls of wgDevice.Close
\*   applied  : the lines handed to IpcSet
\*   inits    : executions of init
\*   upAtCleanup : bring-up had succeeded when Cleanup was first called
\*   cause    : the resolver call whose error init wrapped and returned
NoEnv == [resLog |-> <<>>, binds |-> 0, tuns |-> 0, devices |-> 0,
          devCloses |-> 0, applied |-> <<>>, inits |-> 0,
          upAtCleanup |-> FALSE, cause |-> 0]

UpInitWith(o) ==
    /\ option = o
    /\ w = NewWireGuard(o)
    /\ upOnce = "new"
    /\ downOnce = "new"
    /\ ini = NoInit
    /\ upc = [t \in Callers |-> "idle"]
    /\ ucall = [t \in Callers |-> "none"]
    /\ seen = [t \in Callers |-> <<"none", "nil">>]
    /\ env = NoEnv
    /\ callsStarted = 0

UpInit == \E o \in Options : UpInitWith(o)

\* The outbound of the other specifications: never called.
UpIdle == UpInitWith([psk |-> FALSE, ip |-> TRUE, ipv6 |-> FALSE])

UpCanBegin(t) == w.built /\ upc[t] = "idle" /\ callsStarted < MaxCalls

\* DialContext / ListenPacketContext begin with w.up().
UpCall(t, call) ==
    /\ UpCanBegin(t)
    /\ callsStarted' = callsStarted + 1
    /\ ucall' = [ucall EXCEPT ![t] = call]
    /\ seen' = [seen EXCEPT ![t] = <<"none", "nil">>]
    /\ upc' = [upc EXCEPT ![t] = "up"]
    /\ UNCHANGED <<option, w, upOnce, downOnce, ini, env>>
    /\ UpFrame

DialContext(t) == UpCall(t, "DialContext")

ListenPacketContext(t) == UpCall(t, "ListenPacketContext")

\* upOnce.Do, the first caller: it runs init.
UpOnceEnterRetries(t) ==
    /\ upc[t] = "up"
    /\ upOnce = "new" \/ (upOnce = "done" /\ w.upErr # "nil")
    /\ upOnce' = "running"
    /\ ini' = NoInit
    /\ env' = [env EXCEPT !.inits = @ + 1]
    /\ upc' = [upc EXCEPT ![t] = "lookup"]
    /\ UNCHANGED <<option, w, downOnce, ucall, seen, callsStarted>>
    /\ UpFrame
UpOnceEnter(t) ==
    /\ upc[t] = "up"
    /\ upOnce = "new"
    /\ upOnce' = "running"
    /\ ini' = NoInit
    /\ env' = [env EXCEPT !.inits = @ + 1]
    /\ upc' = [upc EXCEPT ![t] = "lookup"]
    /\ UNCHANGED <<option, w, downOnce, ucall, seen, callsStarted>>
    /\ UpFrame

\* upOnce.Do, any other caller: it returns once the first call of Do has
\* returned.
OnceReturnsEarly(once) == once # "new"
OnceReturns(once) == once = "done"

UpOnceWait(t) ==
    /\ upc[t] = "up"
    /\ OnceReturns(upOnce)
    /\ upc' = [upc EXCEPT ![t] = "afterUp"]
    /\ UNCHANGED <<option, w, upOnce, downOnce, ini, ucall, seen, env, callsStarted>>
    /\ UpFrame

\* init returns err: up stores it in upErr and upOnce.Do returns.
InitReturn(t, err, wNew) ==
    /\ w' = [wNew EXCEPT !.upErr = err]
    /\ upOnce' = "done"
    /\ upc' = [upc EXCEPT ![t] = "afterUp"]

\* if tryTimes < 5 { tryTimes++; sleep; goto lookup }
MayRetryFewer(tryTimes) == tryTimes < RetryLimit - 2
MayRetryOnceMore(tryTimes) == tryTimes <= RetryLimit
MayRetry(tryTimes) == tryTimes < RetryLimit

\* init, one pass of the lookup loop: the k-th call of
\* ResolveProxyServerHost answers with address k or with an error.
InitLookup(t) ==
    /\ upc[t] = "lookup"
    /\ \E ok \in BOOLEAN :
         LET k == Len(env.resLog) + 1 IN
         /\ env' = [env EXCEPT !.resLog = Append(@, ok),
                               !.cause = IF ~ok /\ ~MayRetry(ini.tryTimes)
                                         THEN k ELSE @]
         /\ IF ok
            THEN /\ ini' = [ini EXCEPT !.endpointIP = k]
                 /\ w' = [w EXCEPT !.uapiConf = Append(@, Line("endpoint", k))]
                 /\ upc' = [upc EXCEPT ![t] = "build"]
                 /\ UNCHANGED upOnce
            ELSE IF MayRetry(ini.tryTimes)
            THEN /\ ini' = [ini EXCEPT !.tryTimes = @ + 1]
                 /\ UNCHANGED <<w, upc, upOnce>>
            ELSE /\ InitReturn(t, "resolveErr", w)
                 /\ UNCHANGED ini
    /\ UNCHANGED <<option, downOnce, ucall, seen, callsStarted>>
    /\ UpFrame

\* init: NewWgBind, then CreateNetTUN, which may fail.
InitBuild(t) ==
    /\ upc[t] = "build"
    /\ \E ok \in BOOLEAN :
         IF ok
         THEN /\ env' = [env EXCEPT !.binds = @ + 1, !.tuns = @ + 1]
              /\ ini' = [ini EXCEPT !.wgBind = 1, !.tunDevice = 1]
              /\ upc' = [upc EXCEPT ![t] = "device"]
              /\ UNCHANGED <<w, upOnce>>
         ELSE /\ env' = [env EXCEPT !.binds = @ + 1]
              /\ ini' = [ini EXCEPT !.wgBind = 1]
              /\ InitReturn(t, "tunErr", w)
    /\ UNCHANGED <<option, downOnce, ucall, seen, callsStarted>>
    /\ UpFrame

\* init: device.NewDevice, then IpcSet of the joined lines, which may fail;
\* on success the fields are stored and the buffers dropped.
InitDevice(t) ==
    /\ upc[t] = "device"
    /\ \E ok \in BOOLEAN :
         /\ env' = [env EXCEPT !.devices = @ + 1, !.applied = w.uapiConf]
         /\ ini' = [ini EXCEPT !.wgDevice = 1]
         /\ IF ok
            THEN InitReturn(t, "nil",
                            [w EXCEPT !.bind = ini.wgBind,
                                      !.tunDevice = ini.tunDevice,
                                      !.netStack = 1,
                                      !.wgDevice = 1,
                                      !.uapiConf = <<>>])
            ELSE InitReturn(t, "ipcErr", w)
    /\ UNCHANGED <<option, downOnce, ucall, seen, callsStarted>>
    /\ UpFrame

\* After up(): a stored upErr is returned wrapped with the proxy's name;
\* otherwise the call goes on to the network stack, which answers or fails.
AfterUp(t) ==
    /\ upc[t] = "afterUp"
    /\ IF w.upErr # "nil"
       THEN seen' = [seen EXCEPT ![t] = <<"wrapped", w.upErr>>]
       ELSE \E r \in {"conn", "stackErr"} : seen' = [seen EXCEPT ![t] = <<r, "nil">>]
    /\ upc' = [upc EXCEPT ![t] = "idle"]
    /\ UNCHANGED <<option, w, upOnce, downOnce, ini, ucall, env, callsStarted>>
    /\ UpFrame

\* Cleanup: downOnce.Do, the first caller.
CleanupEnter(t) ==
    /\ UpCanBegin(t)
    /\ downOnce = "new"
    /\ downOnce' = "running"
    /\ callsStarted' = callsStarted + 1
    /\ ucall' = [ucall EXCEPT ![t] = "Cleanup"]
    /\ seen' = [seen EXCEPT ![t] = <<"none", "nil">>]
    /\ upc' = [upc EXCEPT ![t] = "down"]
    /\ env' = [env EXCEPT !.upAtCleanup = (upOnce = "done" /\ w.upErr = "nil")]
    /\ UNCHANGED <<option, w, upOnce, ini>>
    /\ UpFrame

\* if w.wgDevice != nil { w.wgDevice.Close() }
CleanupBody(t) ==
    /\ upc[t] = "down"
    /\ downOnce' = "done"
    /\ env' = IF w.wgDevice # 0 THEN [env EXCEPT !.devCloses = @ + 1] ELSE env
    /\ seen' = [seen EXCEPT ![t] = <<"cleaned", "nil">>]
    /\ upc' = [upc EXCEPT ![t] = "idle"]
    /\ UNCHANGED <<option, w, upOnce, ini, ucall, callsStarted>>
    /\ UpFrame

\* Cleanup: downOnce.Do, any later caller returns once the first has.
CleanupAgainNoOnce(t) ==
    /\ UpCanBegin(t)
    /\ downOnce = "done"
    /\ callsStarted' = callsStarted + 1
    /\ ucall' = [ucall EXCEPT ![t] = "Cleanup"]
    /\ seen' = [seen EXCEPT ![t] = <<"cleaned", "nil">>]
    /\ env' = IF w.wgDevice # 0 THEN [env EXCEPT !.devCloses = @ + 1] ELSE env
    /\ UNCHANGED <<option, w, upOnce, downOnce, ini, upc>>
    /\ UpFrame
CleanupAgain(t) ==
    /\ UpCanBegin(t)
    /\ OnceReturns(downOnce)
    /\ callsStarted' = callsStarted + 1
    /\ ucall' = [ucall EXCEPT ![t] = "Cleanup"]
    /\ seen' = [seen EXCEPT ![t] = <<"cleaned", "nil">>]
    /\ UNCHANGED <<option, w, upOnce, downOnce, ini, upc, env>>
    /\ UpFrame

UpNext ==
    \E t \in Callers :
         \/ DialContext(t)
         \/ ListenPacketContext(t)
         \/ UpOnceEnter(t)
         \/ UpOnceWait(t)
         \/ InitLookup(t)
         \/ InitBuild(t)
         \/ InitDevice(t)
         \/ AfterUp(t)
         \/ CleanupEnter(t)
         \/ CleanupBody(t)
         \/ CleanupAgain(t)


(***************************************************************************)
(* Direct-socket Bind (StdNetBind): Open and Close.                        *)
(***************************************************************************)

Ports == 1..MaxPort

\* tries < 100
MaxTries == 100

\* NewStdNetBind: no socket, no blackhole.
NewStdNetBind == [ipv4 |-> 0, ipv6 |-> 0, blackhole4 |-> FALSE, blackhole6 |-> FALSE]

\* No Open is running.  The locals of Open, with what it began from: the
\* call before it (prev), whether the Bind held a socket (wasOpen) and the
\* sockets the process held (preBound).
NoOpen == [pc |-> "idle", uport |-> 0, port |-> 0, tries |-> 0, v4conn |-> 0,
           v6conn |-> 0, o4 |-> "none", o6 |-> "none", prev |-> "none",
           wasOpen |-> FALSE, preBound |-> {}]

\* What a returned call leaves behind: the call, its error, the port and
\* the number of receive functions it returned, whether the Bind held a
\* socket when it began (wasOpen), the Bind and the sockets as they were
\* then (pre, preBound), the port asked for, the answers of the last two
\* listenNet calls, the retries made (tries), and the call that returned
\* before it (prev).
StdReturned(op, err, port, fns, l, prev) ==
    [op |-> op, err |-> err, port |-> port, fns |-> fns,
     wasOpen |-> (s.ipv4 # 0 \/ s.ipv6 # 0), pre |-> s, preBound |-> bound,
     uport |-> l.uport, o4 |-> l.o4, o6 |-> l.o6, tries |-> l.tries,
     prev |-> prev]

NoStdCall ==
    [op |-> "none", err |-> "nil", port |-> 0, fns |-> 0, wasOpen |-> FALSE,
     pre |-> NewStdNetBind, preBound |-> {}, uport |-> 0, o4 |-> "none",
     o6 |-> "none", tries |-> 0, prev |-> "none"]

StdInit ==
    /\ s = NewStdNetBind
    /\ bound = {}
    /\ sop = NoOpen
    /\ slast = NoStdCall
    /\ sHist = [calls |-> 0, prev |-> "none", already |-> FALSE]

StdCanBegin == sop.pc = "idle" /\ sHist.calls < MaxStdOps

\* The call that returned last.
StdPrev == sHist.prev

\* if s.ipv4 != nil || s.ipv6 != nil { return nil, 0, wg.ErrBindAlreadyOpen }
AlreadyOpenNever(b) == FALSE
AlreadyOpen(b) == b.ipv4 # 0 \/ b.ipv6 # 0

\* Open on a Bind that holds a socket.
StdOpenAlready ==
    /\ StdCanBegin
    /\ AlreadyOpen(s)
    /\ \E uport \in 0..MaxPort :
         slast' = StdReturned("Open", "ErrBindAlreadyOpen", 0, 0,
                              [NoOpen EXCEPT !.uport = uport], StdPrev)
    /\ sHist' = [calls |-> sHist.calls + 1, prev |-> "Open", already |-> TRUE]
    /\ UNCHANGED <<s, bound, sop>>
    /\ StdFrame

\* Open on a Bind that holds none: on to the label again.
StdOpenBegin ==
    /\ StdCanBegin
    /\ ~AlreadyOpen(s)
    /\ \E uport \in 0..MaxPort :
         sop' = [NoOpen EXCEPT !.pc = "listen4", !.uport = uport,
                               !.port = uport, !.prev = StdPrev,
                               !.wasOpen = (s.ipv4 # 0 \/ s.ipv6 # 0),
                               !.preBound = bound]
    /\ slast' = NoStdCall
    /\ sHist' = [sHist EXCEPT !.calls = @ + 1]
    /\ UNCHANGED <<s, bound>>
    /\ StdFrame

\* listenNet(network, port): the answers the system can give.  A socket on
\* port p of family fam, p being the port asked for or, for port 0, any
\* port the process does not hold in that family; or an error.
ListenAnswers(fam, port) ==
    {<<"ok", p>> : p \in {q \in Ports : /\ port \in {0, q}
                                         /\ <<fam, q>> \notin bound}}
    \cup {<<"EAFNOSUPPORT", 0>>, <<"EACCES", 0>>}
    \cup (IF port # 0 THEN {<<"EADDRINUSE", 0>>} ELSE {})

\* Open returns err: the locals are dropped.
StdOpenReturn(err, port, fns, l, sNew, boundNew) ==
    /\ s' = sNew
    /\ bound' = boundNew
    /\ slast' = [StdReturned("Open", err, port, fns, l, l.prev)
                   EXCEPT !.wasOpen = l.wasOpen, !.preBound = l.preBound]
    /\ sHist' = [sHist EXCEPT !.prev = "Open"]
    /\ sop' = NoOpen

\* v4conn, port, err = s.listenNet("udp4", port)
StdListen4 ==
    /\ sop.pc = "listen4"
    /\ \E a \in ListenAnswers("udp4", sop.port) :
         IF a[1] = "ok"
         THEN /\ sop' = [sop EXCEPT !.pc = "listen6", !.v4conn = a[2],
                                    !.port = a[2], !.o4 = "ok"]
              /\ bound' = bound \cup {<<"udp4", a[2]>>}
              /\ UNCHANGED <<s, slast, sHist>>
         ELSE IF a[1] = "EAFNOSUPPORT"
         THEN /\ sop' = [sop EXCEPT !.pc = "listen6", !.v4conn = 0,
                                    !.port = 0, !.o4 = a[1]]
              /\ UNCHANGED <<s, bound, slast, sHist>>
         ELSE StdOpenReturn(a[1], 0, 0, [sop EXCEPT !.o4 = a[1]], s, bound)
    /\ StdFrame

\* v4conn.Close() of Open: the socket is released; on a nil v4conn the
\* call panics.
CloseV4(l, b) == b \ {<<"udp4", l.v4conn>>}

\* if uport == 0 && errors.Is(err, syscall.EADDRINUSE) && tries < 100
RetryListenAnyPort(uport, err, tries) ==
    err = "EADDRINUSE" /\ tries < MaxTries
RetryListen(uport, err, tries) ==
    uport = 0 /\ err = "EADDRINUSE" /\ tries < MaxTries

\* if err != nil && !errors.Is(err, syscall.EAFNOSUPPORT)
ListenFatalNever(err) == FALSE
ListenFatal(err) == err \notin {"ok", "EAFNOSUPPORT"}

\* v6conn, port, err = s.listenNet("udp6", port), and the rest of Open.
StdListen6 ==
    /\ sop.pc = "listen6"
    /\ \E a \in ListenAnswers("udp6", sop.port) :
         LET l == [sop EXCEPT !.o6 = a[1], !.port = a[2],
                              !.v6conn = IF a[1] = "ok" THEN a[2] ELSE 0]
         IN
         IF RetryListen(l.uport, a[1], l.tries)
         THEN IF l.v4conn = 0
              THEN StdOpenReturn("panic", 0, 0, l, s, bound)
              ELSE /\ sop' = [l EXCEPT !.pc = "listen4", !.tries = @ + 1,
                                       !.port = l.uport, !.v4conn = 0,
                                       !.v6conn = 0]
                   /\ bound' = CloseV4(l, bound)
                   /\ UNCHANGED <<s, slast, sHist>>
         ELSE IF ListenFatal(a[1])
         THEN IF l.v4conn = 0
              THEN StdOpenReturn("panic", 0, 0, l, s, bound)
              ELSE StdOpenReturn(a[1], 0, 0, l, s, CloseV4(l, bound))
         ELSE LET fns == (IF l.v4conn # 0 THEN 1 ELSE 0)
                         + (IF l.v6conn # 0 THEN 1 ELSE 0)
                  sNew == [s EXCEPT !.ipv4 = l.v4conn, !.ipv6 = l.v6conn]
                  bNew == IF a[1] = "ok" THEN bound \cup {<<"udp6", a[2]>>}
                          ELSE bound
              IN  IF fns = 0
                  THEN StdOpenReturn("EAFNOSUPPORT", 0, 0, l, sNew, bNew)
                  ELSE StdOpenReturn("nil", l.port, fns, l, sNew, bNew)
    /\ StdFrame

\* Close: both sockets are closed and the fields set to nil, the blackhole
\* flags cleared.
StdClosedKeepsFields(b) == [b EXCEPT !.blackhole4 = FALSE, !.blackhole6 = FALSE]
StdClosed(b) == NewStdNetBind

StdClose ==
    /\ StdCanBegin
    /\ s' = StdClosed(s)
    /\ bound' = bound \ {<<"udp4", s.ipv4>>, <<"udp6", s.ipv6>>}
    /\ slast' = StdReturned("Close", "nil", 0, 0, NoOpen, StdPrev)
    /\ sHist' = [sHist EXCEPT !.calls = @ + 1, !.prev = "Close"]
    /\ UNCHANGED sop
    /\ StdFrame

StdNext ==
    \/ StdOpenAlready
    \/ StdOpenBegin
    \/ StdListen4
    \/ StdListen6
    \/ StdClose


(***************************************************************************)
(* Reserved-byte framing of both Binds.  A buffer is a sequence of bytes;  *)
(* byte offset k of the code is element k + 1.                             *)
(***************************************************************************)

Bytes == 0..MaxByte

\* The reserved field of a Bind: nil (<<>>) or exactly three bytes.
Reserveds == {<<>>} \cup [1..3 -> Bytes]

Datagrams == UNION {[1..n -> Bytes] : n \in 0..MaxLen}

\* StdNetBind.setReserved
StdSetReserved(reserved, b) ==
    IF Len(b) < 4 \/ reserved = <<>> THEN b
    ELSE [b EXCEPT ![2] = reserved[1], ![3] = reserved[2], ![4] = reserved[3]]

\* StdNetBind.resetReserved
StdResetReserved(b) ==
    IF Len(b) < 4 THEN b
    ELSE [b EXCEPT ![2] = 0, ![3] = 0, ![4] = 0]

\* WgBind.setReserved
WgSetReserved(reserved, b) ==
    IF Len(b) < 4 \/ reserved = <<>> THEN b
    ELSE [b EXCEPT ![2] = reserved[1], ![3] = reserved[2], ![4] = reserved[3]]

\* WgBind.resetReserved
WgResetReservedKeeps(b) == b
WgResetReserved(b) ==
    IF Len(b) < 4 THEN b
    ELSE [b EXCEPT ![2] = 0, ![3] = 0, ![4] = 0]

\* A datagram read into a receive buffer of MaxLen bytes.
ReadInto(d) == [k \in 1..MaxLen |-> IF k <= Len(d) THEN d[k] ELSE 0]

\* The first n bytes of buffer b.
Prefix(b, n) == [k \in 1..n |-> b[k]]

\* A sender and a receiver of the same kind and with the same reserved
\* field; the sender holds a datagram (orig) in its buffer (buf).
FrInit ==
    \E kind \in {"std", "relayed"}, reserved \in Reserveds, d \in Datagrams :
        fr = [kind |-> kind, reserved |-> reserved, orig |-> d, buf |-> d,
              wire |-> <<>>, recv |-> <<>>, pc |-> "new"]

\* The loopback pair of the other specifications: never used.
FrIdle ==
    fr = [kind |-> "std", reserved |-> <<>>, orig |-> <<>>, buf |-> <<>>,
          wire |-> <<>>, recv |-> <<>>, pc |-> "new"]

\* StdNetBind.Send: setReserved on the caller's buffer, then the write.
StdSendFrame ==
    /\ fr.pc = "new"
    /\ fr.kind = "std"
    /\ fr' = [fr EXCEPT !.buf = StdSetReserved(fr.reserved, fr.buf),
                        !.wire = StdSetReserved(fr.reserved, fr.buf),
                        !.pc = "sent"]
    /\ FrFrame

\* The receive function of StdNetBind: the read, then resetReserved on the
\* whole buffer; the caller is given the datagram's size.
StdReceiveFrame ==
    /\ fr.pc = "sent"
    /\ fr.kind = "std"
    /\ fr' = [fr EXCEPT !.recv = Prefix(StdResetReserved(ReadInto(fr.wire)),
                                        Len(fr.wire)),
                        !.pc = "received"]
    /\ FrFrame

\* WgBind.Send: setReserved on the caller's buffer, then the write.
WgSendFrame ==
    /\ fr.pc = "new"
    /\ fr.kind = "relayed"
    /\ fr' = [fr EXCEPT !.buf = WgSetReserved(fr.reserved, fr.buf),
                        !.wire = WgSetReserved(fr.reserved, fr.buf),
                        !.pc = "sent"]
    /\ FrFrame

\* WgBind.receive: the read, then resetReserved on the whole buffer.
WgReceiveFrame ==
    /\ fr.pc = "sent"
    /\ fr.kind = "relayed"
    /\ fr' = [fr EXCEPT !.recv = Prefix(WgResetReserved(ReadInto(fr.wire)),
                                        Len(fr.wire)),
                        !.pc = "received"]
    /\ FrFrame

FrNext ==
    \/ StdSendFrame
    \/ StdReceiveFrame
    \/ WgSendFrame
    \/ WgReceiveFrame


(***************************************************************************)
(* The endpoint cache: asEndpoint over endpointPool, a sync.Pool of maps   *)
(* from netip.AddrPort to *StdNetEndpoint.                                 *)
(***************************************************************************)

Interners == 1..NumInterners

AddrPorts == 1..NumAddrs

\* No *StdNetEndpoint: what m[ap] reads for an absent key.
NoEndpoint == [id |-> 0, AddrPort |-> 0]

\* &wg.StdNetEndpoint{AddrPort: ap}: a new object, id its identity.
NewEndpointZero(ap, id) == [id |-> id, AddrPort |-> 0]
NewEndpoint(ap, id) == [id |-> id, AddrPort |-> ap]

\* make(map[netip.AddrPort]*wg.StdNetEndpoint)
NewMap == [ap \in AddrPorts |-> NoEndpoint]

\* A goroutine outside asEndpoint; arg and ret are its last call's.
IcIdle == [pc |-> "idle", ap |-> 0, m |-> 0, e |-> NoEndpoint,
           arg |-> 0, ret |-> NoEndpoint]

\* maps: every map made; free: the maps in the pool; first: the endpoint
\* each key of each map was first given.
EpInit ==
    /\ ep = [maps |-> <<>>, free |-> {}, first |-> <<>>, allocs |-> 0,
             calls |-> 0]
    /\ ic = [t \in Interners |-> IcIdle]

\* endpointPool.Get finding a pooled map: the map leaves the pool.
PoolGet(t, ap) ==
    /\ ic[t].pc = "idle"
    /\ ep.calls < MaxInterns
    /\ \E m \in ep.free :
        /\ ep' = [ep EXCEPT !.free = @ \ {m}, !.calls = @ + 1]
        /\ ic' = [ic EXCEPT ![t] = [IcIdle EXCEPT !.pc = "got", !.ap = ap,
                                                  !.m = m]]
    /\ EpFrame

\* endpointPool.Get finding none (the pool may miss the ones it holds):
\* New makes an empty map.
PoolNew(t, ap) ==
    /\ ic[t].pc = "idle"
    /\ ep.calls < MaxInterns
    /\ Len(ep.maps) < MaxMaps
    /\ ep' = [ep EXCEPT !.maps = Append(@, NewMap),
                        !.first = Append(@, NewMap),
                        !.calls = @ + 1]
    /\ ic' = [ic EXCEPT ![t] = [IcIdle EXCEPT !.pc = "got", !.ap = ap,
                                              !.m = Len(ep.maps) + 1]]
    /\ EpFrame

\* e, ok := m[ap]; a missing key allocates the endpoint.
Lookup(t) ==
    /\ ic[t].pc = "got"
    /\ LET e == ep.maps[ic[t].m][ic[t].ap] IN
        IF e # NoEndpoint
        THEN /\ ic' = [ic EXCEPT ![t].pc = "ret", ![t].e = e]
             /\ ep' = ep
        ELSE /\ ic' = [ic EXCEPT ![t].pc = "store",
                                 ![t].e = NewEndpoint(ic[t].ap,
                                                      ep.allocs + 1)]
             /\ ep' = [ep EXCEPT !.allocs = @ + 1]
    /\ EpFrame

\* m[ap] = e
Store(t) ==
    /\ ic[t].pc = "store"
    /\ LET m == ic[t].m
           ap == ic[t].ap IN
        ep' = [ep EXCEPT !.maps[m][ap] = ic[t].e,
                         !.first[m][ap] = IF @ = NoEndpoint THEN ic[t].e
                                          ELSE @]
    /\ ic' = [ic EXCEPT ![t].pc = "ret"]
    /\ EpFrame

\* return e, and the deferred endpointPool.Put(m).
PutReturn(t) ==
    /\ ic[t].pc = "ret"
    /\ ep' = [ep EXCEPT !.free = @ \cup {ic[t].m}]
    /\ ic' = [ic EXCEPT ![t] = [IcIdle EXCEPT !.arg = ic[t].ap,
                                              !.ret = ic[t].e]]
    /\ EpFrame

\* The garbage collector empties the pool of a map.
PoolDrop(m) ==
    /\ m \in ep.free
    /\ ep' = [ep EXCEPT !.free = @ \ {m}]
    /\ ic' = ic
    /\ EpFrame

EpNext ==
    \/ \E t \in Interners, ap \in AddrPorts : PoolGet(t, ap)
    \/ \E t \in Interners, ap \in AddrPorts : PoolNew(t, ap)
    \/ \E t \in Interners : Lookup(t)
    \/ \E t \in Interners : Store(t)
    \/ \E t \in Interners : PutReturn(t)
    \/ \E m \in 1..MaxMaps : PoolDrop(m)

(***************************************************************************)
(* The DNS server list: NewWireGuard builds it from the dns option, init   *)
(* hands it to CreateNetTUN.                                               *)
(***************************************************************************)

\* The strings a dns option may hold: three addresses and a host name.
DnsStrings == {"1.1.1.1", "8.8.8.8", "9.9.9.9", "dns.example"}

\* The dns options: lists of at most MaxDns strings.
DnsOptions == UNION {[1..n -> DnsStrings] : n \in 0..MaxDns}

\* The zero netip.Addr: not valid.
ZeroAddr == [valid |-> FALSE, ip |-> "invalid IP"]

\* netip.ParseAddr: the address a string denotes, or an error.
ParseAddr(d) ==
    IF d \in {"1.1.1.1", "8.8.8.8", "9.9.9.9"}
    THEN [addr |-> [valid |-> TRUE, ip |-> d], err |-> "nil"]
    ELSE [addr |-> ZeroAddr, err |-> "parseErr"]

\* if len(dns) == 0 { dns = append(dns, "1.1.1.1", "8.8.8.8") }
DnsOrDefault(o) == IF Len(o) = 0 THEN <<"1.1.1.1", "8.8.8.8">> ELSE o

\* make([]netip.Addr, n): n zero addresses.
MakeAddrs(n) == [i \in 1..n |-> ZeroAddr]

\* NewWireGuard has not reached the dns option: opt is option.DNS, list the
\* local dns, servers the slice dnsServers, k the position of the range
\* loop, handed what CreateNetTUN was given.
DnsNew(o) ==
    [pc |-> "new", opt |-> o, list |-> <<>>, servers |-> <<>>, k |-> 0,
     err |-> "nil", handed |-> <<>>]

DnsInit == \E o \in DnsOptions : dns = DnsNew(o)

\* The list of the other specifications: never built.
DnsIdle == dns = DnsNew(<<>>)

\* dns := option.DNS, the default, and dnsServers := make(..., len(dns)).
DnsMake ==
    /\ dns.pc = "new"
    /\ dns' = [dns EXCEPT !.pc = "range",
                          !.list = DnsOrDefault(dns.opt),
                          !.servers = MakeAddrs(Len(DnsOrDefault(dns.opt))),
                          !.k = 1]
    /\ DnsFrame

\* One pass of the range loop: ParseAddr, then the error return or
\* dnsServers = append(dnsServers, ip).
DnsParse ==
    /\ dns.pc = "range"
    /\ dns.k <= Len(dns.list)
    /\ LET r == ParseAddr(dns.list[dns.k]) IN
        IF r.err # "nil"
        THEN dns' = [dns EXCEPT !.pc = "failed", !.err = r.err]
        ELSE dns' = [dns EXCEPT !.servers = Append(@, r.addr), !.k = @ + 1]
    /\ DnsFrame

\* The loop is over: the outbound is constructed with dnsServers.
DnsBuilt ==
    /\ dns.pc = "range"
    /\ dns.k > Len(dns.list)
    /\ dns' = [dns EXCEPT !.pc = "built"]
    /\ DnsFrame

\* init: wireguard.CreateNetTUN(localIPs, w.dnsServers, w.mtu)
DnsHand ==
    /\ dns.pc = "built"
    /\ dns' = [dns EXCEPT !.pc = "handed", !.handed = dns.servers]
    /\ DnsFrame

DnsNext ==
    \/ DnsMake
    \/ DnsParse
    \/ DnsBuilt
    \/ DnsHand

(***************************************************************************)
(* Specifications.                                                         *)
(***************************************************************************)

\* The relayed Bind under concurrent callers.
Init == WbInit /\ UpIdle /\ StdInit /\ FrIdle /\ EpInit /\ DnsIdle

Next == WbNext

Spec == Init /\ [][Next]_vars

\* The relayed Bind's connect under concurrent Send and receive callers.
SpecConn == Init /\ [][WbConnNext]_vars

\* The relayed Bind under a single caller.
SpecSeq == Init /\ [][WbSeqNext]_vars

\* The outbound's bring-up and teardown.
InitUp == WbInit /\ UpInit /\ StdInit /\ FrIdle /\ EpInit /\ DnsIdle

SpecUp == InitUp /\ [][UpNext]_vars

\* The direct-socket Bind.
SpecStd == Init /\ [][StdNext]_vars

\* One datagram through a loopback pair of Binds.
InitFrame == WbInit /\ UpIdle /\ StdInit /\ FrInit /\ EpInit /\ DnsIdle

SpecFrame == InitFrame /\ [][FrNext]_vars

\* Goroutines interning endpoints.
SpecPool == Init /\ [][EpNext]_vars

\* The DNS server list of an outbound.
InitDns == WbInit /\ UpIdle /\ StdInit /\ FrIdle /\ EpInit /\ DnsInit

SpecDns == InitDns /\ [][DnsNext]_vars

(***************************************************************************)
(* Claims about the relayed Bind, checked under SpecSeq.                   *)
(***************************************************************************)

C11_NoConnAfterClose ==
    wbDone = "closed" => \A c \in 1..Len(conns) : conns[c].done

\* C12 (as stated, for a Bind whose closed signal has fired): a receive call
\* made once Close has returned returns net.ErrClosed.
C12_ReceiveAfterCloseFails ==
    (last.op = "receive" /\ wbDone = "closed") => last.ret = "ErrClosed"

\* C15 (as stated): a receive whose connect failed on a Bind that is not
\* closed pauses before it returns exactly when the failure was
\* ENETUNREACH.
C15_UnreachableBacksOff ==
    (last.op = "receive" /\ last.cerr # "nil" /\ last.ret # "ErrClosed") =>
        (last.slept <=> last.cerr = "unreach")

\* The Bind was closed when the receive that returned last returned (the
\* single caller has made no call since).
ClosedAtReturn == wbDone = "closed"

InNextCall == pc[1] # "idle" /\ loc[1].op \in {"Send", "receive"}

\* C17: a Send whose Write of buffer k failed has closed the connection it
\* used, returns the write error and has written only the buffers before
\* k; a Send whose connect failed returns that error and has written
\* nothing; and the Send or receive that follows a failed Write does not
\* get the failed connection from connect: it dials, once, and uses the
\* connection it dialed.
C17_SendFailureDiscardsConn ==
    /\ last.op = "Send" =>
         /\ last.ret \in {"nil", "writeErr", "unreach", "refused"}
         /\ last.ret = "writeErr" =>
               (conns[last.c].done /\ last.i < last.nb /\ last.cerr = "nil")
         /\ last.ret \in {"unreach", "refused"} =>
               (last.c = 0 /\ last.i = 0 /\ last.cerr = last.ret)
         /\ last.ret = "nil" => last.i = last.nb
    /\ (last.op = "Send" /\ last.ret = "writeErr" /\ InNextCall) =>
         /\ loc[1].c # last.c
         /\ ~loc[1].rechk
         /\ pc[1] \in {"connLock", "recvConnErr", "write", "read"}
         /\ pc[1] = "connLock" => loc[1].dials = 0
         /\ pc[1] \in {"recvConnErr", "write", "read"} => loc[1].dials = 1
         /\ pc[1] \in {"write", "read"} =>
               (loc[1].c = Len(conns) /\ loc[1].c = wbConn)

\* A Send of two buffers failed on the second, and the call after it holds
\* the connection it dialed.
C17_Witness ==
    /\ last.op = "Send" /\ last.ret = "writeErr"
    /\ last.nb = 2 /\ last.i = 1
    /\ pc[1] \in {"write", "read"}
    /\ loc[1].dials = 1
    /\ loc[1].c = wbConn /\ loc[1].c # last.c

\* A step is a call of Reset: a call begins and has returned, as Reset.
IsReset == opsStarted' = opsStarted + 1 /\ pc' = pc /\ last'.op = "Reset"

\* C18: a call of Reset leaves the closed signal, wb.conn, the lock and
\* every other connection as they were; with no current connection, or
\* with one that is closed already, it changes nothing (wgConn.Close
\* returns net.ErrClosed); otherwise it closes the current connection, once.  After Reset the Bind has no live
\* connection, and the Send or receive that follows dials a new one.
C18_ResetOnlyClosesConn ==
    /\ [][IsReset =>
            /\ wbDone' = wbDone /\ wbConn' = wbConn /\ connMux' = connMux
            /\ closeRets' = closeRets /\ loc' = loc
            /\ Len(conns') = Len(conns)
            /\ \A c \in 1..Len(conns) : c # wbConn => conns'[c] = conns[c]
            /\ wbConn = 0 => conns' = conns
            /\ (wbConn # 0 /\ ~ConnLive(wbConn)) =>
                  conns' = [conns EXCEPT ![wbConn].late = @ + 1]
            /\ ConnLive(wbConn) =>
                  conns'[wbConn] = [conns[wbConn] EXCEPT !.done = TRUE,
                                                         !.closes = @ + 1]
            /\ OpenResult(wbDone') = OpenResult(wbDone)]_vars
    /\ [](last.op = "Reset" =>
            /\ pc[1] = "idle" => ~ConnLive(wbConn)
            /\ last.ret = "nil"
            /\ (InNextCall /\ pc[1] \in {"write", "read"}) =>
                  /\ loc[1].dials = 1
                  /\ loc[1].c = Len(conns) /\ loc[1].c # last.c
                  /\ ~conns[loc[1].c].done)

\* Reset has closed the current connection of a Bind that is not closed,
\* and the call after it holds a new connection.
C18_Witness ==
    /\ last.op = "Reset"
    /\ last.c # 0 /\ conns[last.c].done /\ conns[last.c].closes = 1
    /\ wbDone # "closed"
    /\ pc[1] \in {"write", "read"}
    /\ loc[1].c = wbConn /\ loc[1].c # last.c

(***************************************************************************)
(* Claims about the relayed Bind under concurrent callers, checked under   *)
(* Spec.                                                                   *)
(***************************************************************************)

\* A goroutine is past connect, holding the handle connect returned.
PastConnect(p) == pc[p] \in {"write", "read"}

\* C14: a dial only ever replaces no connection or a closed one, so connect
\* never dials while the current connection is open and callers that enter
\* connect together cause one dial; no call dials twice; a caller whose
\* second check found a live connection did not dial; and every caller
\* holding a handle that is not closed holds the current one, so callers
\* served by one dial hold the same connection.
C14_OneDialSharedConn ==
    /\ \A c \in 1..Len(conns) : c # wbConn => conns[c].done
    /\ \A p \in Procs :
         /\ loc[p].dials <= 1
         /\ loc[p].rechk => loc[p].dials = 0
         /\ PastConnect(p) =>
               /\ loc[p].c \in 1..Len(conns)
               /\ ~conns[loc[p].c].done => loc[p].c = wbConn
    /\ \A p, q \in Procs :
         (/\ PastConnect(p) /\ PastConnect(q)
          /\ ~conns[loc[p].c].done /\ ~conns[loc[q].c].done) =>
            loc[p].c = loc[q].c

\* Two callers entered connect while the Bind had no connection: one
\* dialed, the other found that connection at its second check, and both
\* hold it.
C14_Witness ==
    \E p, q \in Procs :
        /\ PastConnect(p) /\ PastConnect(q)
        /\ loc[p].dials = 1
        /\ loc[q].rechk
        /\ loc[p].c = wbConn /\ loc[q].c = wbConn
        /\ Len(conns) = 1

(***************************************************************************)
(* Claims about the bring-up and teardown, checked under SpecUp.           *)
(***************************************************************************)

\* C4: however many DialContext / ListenPacketContext callers there are,
\* init is executed at most once (one Bind, one stack, one engine, one
\* IpcSet), no caller returns from up() before init has returned, and
\* every caller observes the one stored outcome: all nil, or all the same
\* error, wrapped.
C4_InitOnceSameOutcome ==
    /\ env.inits <= 1
    /\ env.binds <= 1 /\ env.tuns <= 1 /\ env.devices <= 1
    /\ \A t \in Callers :
         /\ upc[t] = "afterUp" => (upOnce = "done" /\ env.inits = 1)
         /\ (ucall[t] \in {"DialContext", "ListenPacketContext"}
               /\ seen[t][1] # "none") =>
              /\ upOnce = "done"
              /\ seen[t][2] = w.upErr
              /\ (seen[t][1] = "wrapped") = (w.upErr # "nil")

C4_Witness ==
    /\ env.inits = 1
    /\ callsStarted >= 2
    /\ \A t \in Callers :
         /\ ucall[t] \in {"DialContext", "ListenPacketContext"}
         /\ seen[t] = <<"wrapped", "ipcErr">>

\* The resolver's first four answers were errors.
FourFailed ==
    /\ Len(env.resLog) >= 4
    /\ \A k \in 1..4 : ~env.resLog[k]

\* C5: when the resolver fails four times and then answers, a fifth
\* attempt is made, no sixth, the endpoint is the fifth answer, and the
\* bring-up does not fail for the resolution.
C5_FifthAttemptUsed ==
    /\ (FourFailed /\ Len(env.resLog) = 4) =>
          (upOnce = "running" /\ \E t \in Callers : upc[t] = "lookup")
    /\ (FourFailed /\ Len(env.resLog) >= 5 /\ env.resLog[5]) =>
          /\ Len(env.resLog) = 5
          /\ ini.endpointIP = 5
          /\ w.upErr \in {"nil", "tunErr", "ipcErr"}
          /\ env.applied # <<>> =>
                env.applied[Len(env.applied)] = Line("endpoint", 5)
          /\ (upOnce = "done" /\ env.devices = 1 /\ w.upErr # "ipcErr") =>
                (w.upErr = "nil" /\ w.wgDevice = 1)

C5_Witness ==
    /\ FourFailed
    /\ Len(env.resLog) = 5
    /\ env.resLog[5]
    /\ upOnce = "done"
    /\ w.upErr = "nil"

\* The keys of the lines handed to IpcSet.
AppliedKeys == [k \in 1..Len(env.applied) |-> env.applied[k].key]

\* C6 (as stated): the lines applied are private_key, public_key,
\* preshared_key (if configured), endpoint, then the allowed_ip lines.
C6_EndpointBeforeAllowedIP ==
    env.applied # <<>> =>
        AppliedKeys =
            <<"private_key", "public_key">>
            \o (IF option.psk THEN <<"preshared_key">> ELSE <<>>)
            \o <<"endpoint">>
            \o (IF option.ip THEN <<"allowed_ip">> ELSE <<>>)
            \o (IF option.ipv6 THEN <<"allowed_ip">> ELSE <<>>)

\* C6 (amended): the lines applied are private_key, public_key,
\* preshared_key (only if configured), allowed_ip=0.0.0.0/0 (only with a
\* local IPv4 address), allowed_ip=::/0 (only with a local IPv6 address)
\* and, last, the endpoint line with the resolved address; for IPv4 only
\* and no preshared key: private_key, public_key, allowed_ip=0.0.0.0/0,
\* endpoint.
C6_EndpointLast ==
    env.applied # <<>> =>
        LET a == env.applied
            n == Len(a)
            k == IF option.psk THEN 1 ELSE 0
        IN  /\ n = 3 + k + (IF option.ip THEN 1 ELSE 0)
                         + (IF option.ipv6 THEN 1 ELSE 0)
            /\ a[1] = Line("private_key", "hex(private-key)")
            /\ a[2] = Line("public_key", "hex(public-key)")
            /\ option.psk => a[3] = Line("preshared_key", "hex(preshared-key)")
            /\ option.ip => a[3 + k] = Line("allowed_ip", "0.0.0.0/0")
            /\ option.ipv6 => a[n - 1] = Line("allowed_ip", "::/0")
            /\ a[n] = Line("endpoint", ini.endpointIP)
            /\ ini.endpointIP >= 1
            /\ (option.ip /\ ~option.ipv6 /\ ~option.psk) =>
                  AppliedKeys = <<"private_key", "public_key", "allowed_ip",
                                  "endpoint">>

C6_Witness ==
    /\ option = [psk |-> FALSE, ip |-> TRUE, ipv6 |-> FALSE]
    /\ Len(env.applied) = 4
    /\ env.applied[3] = Line("allowed_ip", "0.0.0.0/0")
    /\ env.applied[4].key = "endpoint"
    /\ w.upErr = "nil" /\ upOnce = "done"

\* C13: once init has returned an error, that error stays the outcome of
\* the bring-up: init is not executed again (no further resolution, no
\* further Bind, stack or engine), no network stack is stored, and every
\* DialContext and ListenPacketContext call returns that one cause,
\* wrapped with the proxy's name, instead of an answer of the stack.
C13_FailedUpIsTerminal ==
    (upOnce = "done" /\ w.upErr # "nil") =>
        /\ env.inits = 1
        /\ \A t \in Callers : upc[t] \notin {"lookup", "build", "device"}
        /\ w.netStack = 0 /\ w.wgDevice = 0
        /\ w.upErr = "resolveErr" =>
              /\ Len(env.resLog) = RetryLimit + 1
              /\ env.binds = 0 /\ env.tuns = 0 /\ env.devices = 0
        /\ w.upErr = "tunErr" =>
              (env.binds = 1 /\ env.tuns = 0 /\ env.devices = 0)
        /\ w.upErr = "ipcErr" =>
              (env.binds = 1 /\ env.tuns = 1 /\ env.devices = 1)
        /\ \A t \in Callers :
              (ucall[t] \in {"DialContext", "ListenPacketContext"}
                 /\ seen[t][1] # "none") =>
                    seen[t] = <<"wrapped", w.upErr>>

\* Three calls, no Cleanup among them, have returned the wrapped cause of
\* a failed resolution: one caller made two of them, the second after the
\* failure.
C13_Witness ==
    /\ upOnce = "done"
    /\ w.upErr = "resolveErr"
    /\ downOnce = "new"
    /\ callsStarted = MaxCalls
    /\ \A t \in Callers : upc[t] = "idle"
    /\ ucall[1] = "DialContext" /\ seen[1] = <<"wrapped", "resolveErr">>
    /\ ucall[2] = "ListenPacketContext" /\ seen[2] = <<"wrapped", "resolveErr">>

\* C10: however often Cleanup is called, wgDevice.Close is called at most
\* once, and exactly once when the bring-up had succeeded before the first
\* Cleanup.
C10_DeviceClosedOnce ==
    /\ env.devCloses <= 1
    /\ (downOnce = "done" /\ env.upAtCleanup) => env.devCloses = 1

C10_Witness ==
    /\ \A t \in Callers : ucall[t] = "Cleanup" /\ seen[t] = <<"cleaned", "nil">>
    /\ env.upAtCleanup
    /\ env.devCloses = 1

(***************************************************************************)
(* Claims about the direct-socket Bind, checked under SpecStd.             *)
(***************************************************************************)

\* C7: Open on a Bind that holds a socket fails with ErrBindAlreadyOpen,
\* returns no receive function and leaves the Bind's sockets as they were
\* (and Open fails so only then); Close leaves the Bind without sockets,
\* so an Open that follows a Close is not refused and, when both listens
\* are answered with a socket, succeeds with both families open.
C7_AlreadyOpenAndReopen ==
    /\ (slast.op = "Open" /\ slast.wasOpen) =>
          /\ slast.err = "ErrBindAlreadyOpen"
          /\ slast.fns = 0
          /\ s = slast.pre
          /\ bound = slast.preBound
    /\ (slast.op = "Open" /\ slast.err = "ErrBindAlreadyOpen") => slast.wasOpen
    /\ slast.op = "Close" =>
          (s.ipv4 = 0 /\ s.ipv6 = 0 /\ bound = {} /\ slast.err = "nil")
    /\ (slast.op = "Open" /\ slast.prev = "Close") =>
          /\ ~slast.wasOpen
          /\ slast.err # "ErrBindAlreadyOpen"
          /\ (slast.o4 = "ok" /\ slast.o6 = "ok") =>
                (slast.err = "nil" /\ slast.fns = 2 /\ s.ipv4 # 0 /\ s.ipv6 # 0)

C7_Witness ==
    /\ slast.op = "Open"
    /\ slast.prev = "Close"
    /\ slast.err = "nil"
    /\ slast.fns = 2
    /\ sHist.already

\* C19: Open retries only when port 0 was asked for, and at most MaxTries
\* times; a retry has closed the IPv4 socket before it listens again; an
\* 'address in use' answer of the IPv6 listen ends an Open for port 0 only
\* after MaxTries retries, and an Open for another port at once, without a
\* retry, in both cases with that error and no socket left; and an Open
\* that succeeds with both families has both sockets on one port, the one
\* it returns.
C19_BoundedRetrySamePort ==
    /\ sop.tries <= MaxTries
    /\ sop.tries > 0 => sop.uport = 0
    /\ sop.pc = "listen4" => (sop.v4conn = 0 /\ bound = sop.preBound)
    /\ slast.op = "Open" =>
         /\ slast.tries <= MaxTries
         /\ slast.tries > 0 => slast.uport = 0
         /\ (slast.uport = 0 /\ slast.o6 = "EADDRINUSE" /\ slast.o4 = "ok") =>
               /\ slast.tries = MaxTries
               /\ slast.err = "EADDRINUSE"
               /\ bound = slast.preBound
         /\ (slast.uport # 0 /\ slast.o6 = "EADDRINUSE") =>
               /\ slast.tries = 0
               /\ slast.err = "EADDRINUSE"
               /\ bound = slast.preBound
         /\ (slast.err = "nil" /\ slast.fns = 2) =>
               /\ s.ipv4 # 0 /\ s.ipv4 = s.ipv6
               /\ slast.port = s.ipv4
               /\ bound = {<<"udp4", s.ipv4>>, <<"udp6", s.ipv6>>}

\* An Open for port 0 succeeded with both families after a retry.
C19_Witness ==
    /\ slast.op = "Open"
    /\ slast.uport = 0
    /\ slast.tries >= 1
    /\ slast.err = "nil" /\ slast.fns = 2
    /\ s.ipv4 = s.ipv6

Delivered == fr.pc = "received" /\ Len(fr.orig) >= 4

\* C8 (as stated): for every reserved field and every datagram of at least
\* 4 bytes, the bytes 1..3 received are the sender's original bytes 1..3.
C8_RoundTripKeepsBytes ==
    Delivered => \A k \in 2..4 : fr.recv[k] = fr.orig[k]

\* C8 (amended): for every reserved field and every datagram of at least 4
\* bytes, through either Bind, the bytes 1..3 received are zero and every
\* other byte is the sender's; so the datagram received is the sender's
\* original whenever its bytes 1..3 were zero.
C8_RoundTripZeroesBytes ==
    Delivered =>
        /\ Len(fr.recv) = Len(fr.orig)
        /\ \A k \in 2..4 : fr.recv[k] = 0
        /\ \A k \in (1..Len(fr.orig)) \ (2..4) : fr.recv[k] = fr.orig[k]
        /\ (\A k \in 2..4 : fr.orig[k] = 0) => fr.recv = fr.orig

C8_Witness ==
    /\ Delivered
    /\ fr.kind = "relayed"
    /\ fr.reserved = <<1, 1, 1>>
    /\ fr.wire # fr.orig
    /\ fr.recv = fr.orig

(***************************************************************************)
(* Claims about the endpoint cache, checked under SpecPool.                *)
(***************************************************************************)

\* C9: every call of asEndpoint, from any goroutine, returns an endpoint
\* whose address+port is the argument, so two results for the same argument
\* are equal by value; no map is held by two callers at once; and a key of a
\* map, once given an endpoint, keeps that endpoint, whose address+port is
\* the key.
C9_InternedEndpoints ==
    /\ \A t \in Interners :
        ic[t].ret # NoEndpoint => ic[t].ret.AddrPort = ic[t].arg
    /\ \A t, u \in Interners :
        (ic[t].ret # NoEndpoint /\ ic[u].ret # NoEndpoint
            /\ ic[t].arg = ic[u].arg)
        => ic[t].ret.AddrPort = ic[u].ret.AddrPort
    /\ \A t, u \in Interners :
        (t # u /\ ic[t].m # 0) => ic[t].m # ic[u].m
    /\ \A t \in Interners : ic[t].m \notin ep.free
    /\ \A m \in 1..Len(ep.maps), ap \in AddrPorts :
        ep.maps[m][ap] # NoEndpoint =>
            /\ ep.maps[m][ap].AddrPort = ap
            /\ ep.maps[m][ap] = ep.first[m][ap]

\* Two goroutines have interned the same address+port, each through its own
\* map and so each with its own endpoint object, and one of them is cached.
C9_Witness ==
    /\ ic[1].ret # NoEndpoint
    /\ ic[2].ret # NoEndpoint
    /\ ic[1].arg = ic[2].arg
    /\ ic[1].ret.id # ic[2].ret.id
    /\ ep.calls = MaxInterns
    /\ \E m \in 1..Len(ep.maps) : ep.maps[m][ic[1].arg] = ic[1].ret

(***************************************************************************)
(* Claims about the DNS server list, checked under SpecDns.                *)
(***************************************************************************)

\* The addresses the strings of a list denote, in order.
Parsed(l) == [i \in 1..Len(l) |-> ParseAddr(l[i]).addr]

\* C21 (as stated): the DNS server list of a constructed outbound, and the
\* list handed to the network stack, is the list of the configured
\* addresses, in order, each valid, and nothing else; with no dns option
\* it is 1.1.1.1, 8.8.8.8.
C21_DnsListExact ==
    dns.pc \in {"built", "handed"} =>
        /\ dns.servers = Parsed(DnsOrDefault(dns.opt))
        /\ \A i \in 1..Len(dns.servers) : dns.servers[i].valid
        /\ dns.opt = <<>> =>
              dns.servers = <<[valid |-> TRUE, ip |-> "1.1.1.1"],
                              [valid |-> TRUE, ip |-> "8.8.8.8"]>>
        /\ dns.pc = "handed" => dns.handed = Parsed(DnsOrDefault(dns.opt))

(***************************************************************************)
(* Claims about the resolve loop and about teardown, checked under SpecUp. *)
(***************************************************************************)

\* C22: the resolve loop ends after at most RetryLimit retries; when every
\* call of the resolver failed, init has made RetryLimit + 1 calls with one
\* pause before each retry, returns the error of the last call wrapped, and
\* has constructed no Bind, no network stack and no engine.
C22_ResolveRetriesBounded ==
    /\ Len(env.resLog) <= RetryLimit + 1
    /\ ini.tryTimes <= RetryLimit
    /\ (upOnce = "done" /\ w.upErr = "resolveErr") =>
          /\ Len(env.resLog) = RetryLimit + 1
          /\ \A k \in 1..Len(env.resLog) : ~env.resLog[k]
          /\ ini.tryTimes = RetryLimit
          /\ env.cause = Len(env.resLog)
          /\ env.binds = 0 /\ env.tuns = 0 /\ env.devices = 0
          /\ w.bind = 0 /\ w.wgDevice = 0

\* Every call of the resolver failed, bring-up has failed for good and a
\* caller has seen the wrapped error.
C22_Witness ==
    /\ upOnce = "done"
    /\ w.upErr = "resolveErr"
    /\ Len(env.resLog) = RetryLimit + 1
    /\ \E t \in Callers : seen[t] = <<"wrapped", "resolveErr">>

\* C24 (as stated): once Cleanup has returned and bring-up has completed
\* successfully, the engine has been closed, whatever the order of the two.
C24_CleanupClosesEngine ==
    (downOnce = "done" /\ upOnce = "done" /\ w.upErr = "nil") =>
        env.devCloses = env.devices

\* C25 (as stated): after a bring-up that failed in IpcSet, the engine and
\* the TUN device it constructed are closed or stored in the outbound,
\* where Cleanup finds them.
C25_FailedInitLeavesNothingOpen ==
    (upOnce = "done" /\ w.upErr = "ipcErr") =>
        /\ env.devices > env.devCloses => w.wgDevice # 0
        /\ (env.tuns > 0 /\ env.devCloses = 0) => w.tunDevice # 0

(***************************************************************************)
(* Claims about the port of the direct-socket Bind, checked under SpecStd. *)
(***************************************************************************)

\* C26 (as stated): when Open succeeds, the port it returns is the local
\* port of every socket the Bind holds, and a non-zero requested port is
\* the port of every socket the Bind holds, with one family or with two.
C26_OpenReturnsBoundPort ==
    (slast.op = "Open" /\ slast.err = "nil") =>
        /\ s.ipv4 # 0 => slast.port = s.ipv4
        /\ s.ipv6 # 0 => slast.port = s.ipv6
        /\ slast.uport # 0 =>
              /\ s.ipv4 # 0 => s.ipv4 = slast.uport
              /\ s.ipv6 # 0 => s.ipv6 = slast.uport

(***************************************************************************)
(* Claims about the handles of the relayed Bind under concurrent Send,     *)
(* receive, Reset and Close, checked under SpecConn.                       *)
(***************************************************************************)

\* The handles whose stream has not been closed.
OpenConns == {c \in 1..Len(conns) : conns[c].closes = 0}

\* C23: at most one connection the Bind dialed is open, no connection but
\* the current one is open, and connect stores a new current connection
\* only over a nil one or one that is already closed.
C23_OneOpenConn ==
    /\ [](Cardinality(OpenConns) <= 1 /\ OpenConns \subseteq {wbConn})
    /\ [][wbConn' # wbConn =>
            /\ wbConn = 0 \/ conns[wbConn].closes = 1
            /\ wbConn' = Len(conns) + 1]_vars

\* A closed connection has been replaced by a second dial, and the new one
\* is open.
C23_Witness ==
    /\ Len(conns) = 2
    /\ wbConn = 2
    /\ conns[1].closes = 1
    /\ conns[2].closes = 0

\* C27: the stream of a handle is closed at most once, exactly when its
\* signal has fired; a call of wgConn.Close on a handle whose signal has
\* fired returns net.ErrClosed and changes nothing else.
C27_StreamClosedOnce ==
    /\ [](\A c \in 1..Len(conns) :
            /\ conns[c].closes <= 1
            /\ conns[c].done <=> conns[c].closes = 1
            /\ conns[c].late > 0 => conns[c].done)
    /\ [][\A c \in 1..Len(conns) :
            conns[c].done =>
                conns'[c] \in {conns[c], [conns[c] EXCEPT !.late = @ + 1]}]_vars

\* A handle has been closed, a second call of wgConn.Close on it has
\* returned, and a goroutine inside Send or receive still holds it.
C27_Witness ==
    \E c \in 1..Len(conns) :
        /\ conns[c].closes = 1
        /\ conns[c].late >= 1
        /\ \E p \in Procs : pc[p] \in {"write", "read"} /\ loc[p].c = c

====
